---------------------------- MODULE Spec2Model ----------------------------
(***************************************************************************)
(* mdbook-code-table: the annotation scanner (parse_chapter_contents), the *)
(* table parser (get_table_metadata, get_table_row) and the HTML renderer  *)
(* (CodeTable::get_as_html, TableRow::get_as_html) of src/src/table.rs.    *)
(*                                                                         *)
(* A Rust str is modelled as the sequence of its UTF-8 bytes, one element  *)
(* per byte: an ASCII byte is the one-character string of its character,   *)
(* the two bytes of the character U+00E9 are "C3" and "A9", and the        *)
(* backtick, which a TLA+ string cannot hold, is "60".  Offsets are byte   *)
(* offsets counted from 0, as in Rust; Option values are the empty         *)
(* sequence (None) or a one-element sequence (Some).                       *)
(***************************************************************************)
EXTENDS Integers, Sequences, FiniteSets

VARIABLES
    chapter,    \* the input chapter: [name, content, path, parent_names]
    buffer,     \* parse_chapter_contents: the remaining input
    content,    \* parse_chapter_contents: the output accumulated so far
    steps,      \* iterations of the scanner loop that ran to their end
    pc,         \* "loop", "return", "done" or "panic"
    result      \* None, or Some(the chapter returned)

vars == <<chapter, buffer, content, steps, pc, result>>

-----------------------------------------------------------------------------
(* Bounds of the model *)

\* Number of pieces a generated document body is made of, at most.
MaxPieces == 4

\* The iteration cap of the scanner loop.  The source sets it to 2048; the
\* model runs the same loop with a cap that bodies of MaxPieces pieces reach.
MAX_LOOP_STEPS == 3

-----------------------------------------------------------------------------
(* Option and str primitives of the Rust standard library *)

None == <<>>

Some(x) == <<x>>

\* The continuation bytes of the alphabet: an offset that points at one of
\* them is not a char boundary.
ContinuationBytes == {"A9"}

\* char::is_whitespace, for the characters of the alphabet.
WhiteSpace == {" ", "\t", "\n", "\r"}

\* str::is_char_boundary
IsCharBoundary(s, i) ==
    \/ i = 0
    \/ i = Len(s)
    \/ i < Len(s) /\ s[i + 1] \notin ContinuationBytes

\* str::split_at panics unless mid is on a char boundary of s.
SplitAtOk(s, mid) == mid >= 0 /\ mid <= Len(s) /\ IsCharBoundary(s, mid)

SplitAtLeft(s, mid) == SubSeq(s, 1, mid)

SplitAtRight(s, mid) == SubSeq(s, mid + 1, Len(s))

RECURSIVE FindFrom(_, _, _)
FindFrom(s, pat, i) ==
    IF i + Len(pat) > Len(s) THEN None
    ELSE IF SubSeq(s, i + 1, i + Len(pat)) = pat THEN Some(i)
    ELSE FindFrom(s, pat, i + 1)

\* str::find: the byte offset of the first occurrence of pat in s.
Find(s, pat) == FindFrom(s, pat, 0)

\* str::contains
Contains(s, pat) == Find(s, pat) # None

\* str::strip_prefix
StripPrefix(s, pat) ==
    IF Len(s) >= Len(pat) /\ SubSeq(s, 1, Len(pat)) = pat
    THEN Some(SubSeq(s, Len(pat) + 1, Len(s)))
    ELSE None

\* A line of str::lines without its terminator: "\n", or "\r\n".
StripLineEnd(l) ==
    IF Len(l) >= 2 /\ l[Len(l) - 1] = "\r"
    THEN SubSeq(l, 1, Len(l) - 2)
    ELSE SubSeq(l, 1, Len(l) - 1)

\* str::lines: s cut after each "\n"; a last line needs no terminator.
RECURSIVE Lines(_)
Lines(s) ==
    IF s = <<>> THEN <<>>
    ELSE LET nl == Find(s, <<"\n">>)
         IN  IF nl = None THEN <<s>>
             ELSE <<StripLineEnd(SubSeq(s, 1, nl[1] + 1))>>
                      \o Lines(SubSeq(s, nl[1] + 2, Len(s)))

\* str::split(char): n occurrences of ch give n + 1 fragments.
RECURSIVE Split(_, _)
Split(s, ch) ==
    LET i == Find(s, <<ch>>)
    IN  IF i = None THEN <<s>>
        ELSE <<SubSeq(s, 1, i[1])>> \o Split(SubSeq(s, i[1] + 2, Len(s)), ch)

RECURSIVE TrimStart(_)
TrimStart(s) ==
    IF s # <<>> /\ s[1] \in WhiteSpace THEN TrimStart(Tail(s)) ELSE s

RECURSIVE TrimEnd(_)
TrimEnd(s) ==
    IF s # <<>> /\ s[Len(s)] \in WhiteSpace
    THEN TrimEnd(SubSeq(s, 1, Len(s) - 1))
    ELSE s

\* str::trim
Trim(s) == TrimEnd(TrimStart(s))

\* The concatenation of a sequence of strings (Iterator::collect::<String>).
RECURSIVE Concat(_)
Concat(ss) == IF ss = <<>> THEN <<>> ELSE Head(ss) \o Concat(Tail(ss))

-----------------------------------------------------------------------------
(* The table parser *)

CODE_ANNOTATION == <<"@", "c", "o", "d", "e">>

RowType == {"Headings", "Alignments", "TextEntry", "CodeEntry", "Empty"}

\* The type get_table_row gives a cell of a row that is not the first.
CellType(e) ==
    IF Contains(e, <<"-">>) /\ ~Contains(e, <<" ">>) THEN "Alignments"
    ELSE IF Contains(e, <<"60">>) /\ Len(Split(e, "60")) > 1 THEN "CodeEntry"
    ELSE IF e = <<>> THEN "Empty"
    ELSE "TextEntry"

\* get_table_row without the is_first branch: every row typed by content.
get_table_row_ByContent(string, is_first) ==
    LET dirty   == Split(string, "|")
        entries == [i \in 1..Len(dirty) |-> Trim(dirty[i])]
    IN  [contents  |-> entries,
         row_types |-> [i \in 1..Len(entries) |-> CellType(entries[i])]]

get_table_row(string, is_first) ==
    LET dirty   == Split(string, "|")
        entries == [i \in 1..Len(dirty) |-> Trim(dirty[i])]
        types   == IF is_first
                   THEN [i \in 1..Len(entries) |-> "Headings"]
                   ELSE [i \in 1..Len(entries) |-> CellType(entries[i])]
    IN  [contents |-> entries, row_types |-> types]

\* The loop of get_table_metadata, had it skipped blank lines before a row.
RECURSIVE TableLines_SkipBlank(_)
TableLines_SkipBlank(lines) ==
    IF lines = <<>> THEN <<>>
    ELSE IF Head(lines) = <<>> THEN TableLines_SkipBlank(Tail(lines))
    ELSE IF ~Contains(Head(lines), <<"|">>) THEN <<>>
    ELSE <<Head(lines)>> \o TableLines_SkipBlank(Tail(lines))

\* The leading lines that contain a pipe: the loop of get_table_metadata.
RECURSIVE TableLines(_)
TableLines(lines) ==
    IF lines = <<>> \/ ~Contains(Head(lines), <<"|">>) THEN <<>>
    ELSE <<Head(lines)>> \o TableLines(Tail(lines))

RECURSIVE SumLen(_)
SumLen(lines) == IF lines = <<>> THEN 0 ELSE Len(Head(lines)) + SumLen(Tail(lines))

\* get_table_metadata: [kind |-> "None"], or [kind |-> "Panic"] when split_at
\* is given an offset that is not a char boundary, or the table and the
\* consumed length.
get_table_metadata(string) ==
    LET table_lines  == TableLines(Lines(string))
        rows         == [i \in 1..Len(table_lines) |->
                            get_table_row(table_lines[i], i = 1)]
        summed       == SumLen(table_lines)
        next_break   == Find(SplitAtRight(string, summed), <<"\n">>)
        section_size == summed + (IF next_break = None THEN 0 ELSE next_break[1])
    IN  IF table_lines = <<>> THEN [kind |-> "None"]
        ELSE IF ~SplitAtOk(string, summed) THEN [kind |-> "Panic"]
        ELSE [kind |-> "Some", table |-> [rows |-> rows], size |-> section_size]

-----------------------------------------------------------------------------
(* The HTML renderer *)

Lit_th_open == <<"<", "t", "h", ">">>
Lit_th_close == <<"<", "/", "t", "h", ">">>
Lit_td_open == <<"<", "t", "d", ">">>
Lit_td_close == <<"<", "/", "t", "d", ">">>
Lit_pre_open == <<"<", "p", "r", "e", ">">>
Lit_pre_close == <<"<", "/", "p", "r", "e", ">">>
Lit_tr_open == <<"<", "t", "r", ">">>
Lit_tr_close == <<"<", "/", "t", "r", ">">>

\* The match of TableRow::get_as_html with the code cell closed by </td>.
CellHtml_ClosedTd(type, entry) ==
    CASE type = "Alignments" -> <<>>
      [] type = "Empty"      -> <<>>
      [] type = "Headings"   -> Lit_th_open \o entry \o Lit_th_close
      [] type = "CodeEntry"  ->
             Lit_td_open \o Lit_pre_open \o entry \o Lit_pre_close \o Lit_td_close
      [] type = "TextEntry"  -> Lit_td_open \o entry \o Lit_td_close

\* One arm of the match in TableRow::get_as_html.
CellHtml(type, entry) ==
    CASE type = "Alignments" -> <<>>
      [] type = "Empty"      -> <<>>
      [] type = "Headings"   -> Lit_th_open \o entry \o Lit_th_close
      [] type = "CodeEntry"  ->
             Lit_td_open \o Lit_pre_open \o entry \o Lit_pre_close \o Lit_td_open
      [] type = "TextEntry"  -> Lit_td_open \o entry \o Lit_td_close

TableRow_get_as_html(row) ==
    Lit_tr_open
        \o Concat([i \in 1..Len(row.contents) |->
                      CellHtml(row.row_types[i], row.contents[i])])
        \o Lit_tr_close

HasHeadings(row) == \E i \in 1..Len(row.row_types) : row.row_types[i] = "Headings"

\* The rows of a table that pass the filter, in order, each rendered.
RECURSIVE RenderRows(_, _)
RenderRows(rows, headings) ==
    IF rows = <<>> THEN <<>>
    ELSE (IF HasHeadings(Head(rows)) = headings
          THEN TableRow_get_as_html(Head(rows))
          ELSE <<>>)
             \o RenderRows(Tail(rows), headings)

HtmlOpen ==
    <<"<", "t", "a", "b", "l", "e", ">", "\n", "\t", "\t", "\t", "\t", "<", "t", "h",
      "e", "a", "d", ">", "\n", "\t", "\t", "\t", "\t", "\t">>

HtmlMid ==
    <<"\n", "\t", "\t", "\t", "\t", "<", "/", "t", "h", "e", "a", "d", ">", "\n", "\t",
      "\t", "\t", "\t">>

HtmlClose ==
    <<"\n", "\t", "\t", "\t", " ", " ", "<", "/", "t", "a", "b", "l", "e", ">">>

CodeTable_get_as_html(table) ==
    LET data_rows == RenderRows(table.rows, FALSE)
        heading   == RenderRows(table.rows, TRUE)
    IN  HtmlOpen \o heading \o HtmlMid \o data_rows \o HtmlClose

-----------------------------------------------------------------------------
(* The chapters the scanner is given *)

\* The pieces generated bodies are made of: the marker, the pipe, the two
\* line terminators, and one character of each kind the classifier tells
\* apart, one of them of two bytes.
Pieces ==
    { CODE_ANNOTATION, <<"|">>, <<"\n">>, <<"\r", "\n">>, <<"-">>, <<"60">>,
      <<" ">>, <<"a">>, <<"C3", "A9">> }

GeneratedBodies ==
    { Concat(ps) : ps \in UNION { [1..n -> Pieces] : n \in 0..MaxPieces } }

\* The body of the specification's end-to-end example.
SpecExample ==
    <<"b", "e", "f", "o", "r", "e", " ", "@", "c", "o", "d", "e", "|", " ", "a", " ",
      "|", " ", "b", " ", "|", "\n", "|", "-", "-", "-", "|", "-", "-", "-", "|", "\n",
      "|", " ", "60", "x", "60", " ", "|", " ", "y", " ", "|", "\n", "a", "f", "t", "e",
      "r">>

\* Longer bodies: tables of three rows, a table whose last line ends in a
\* two-byte character, a table of short lines after a long one.
LongBodies ==
    { SpecExample,
      CODE_ANNOTATION \o <<"|", "a", "\n", "|", "-", "\n", "|", "a", "-", "a">>,
      CODE_ANNOTATION \o <<"|", "a", "\n", "|", "C3", "A9">>,
      CODE_ANNOTATION \o <<"|", "a", "\r", "\n", "C3", "A9", "|", "\r", "\n", "a">>,
      CODE_ANNOTATION \o <<"|", "a", "a", "a", "\n", "|", "\n", "|", "\n", "a">>,
      CODE_ANNOTATION \o <<"\n", "|", " ", "a", " ", "|", "\n">>,
      <<"a">> \o CODE_ANNOTATION \o <<" ", "|", "-", "|", "60", "a", "60", "\n", "|",
                                     "a", " ", "-", "|", "60", "\n", "a">> }

Bodies == GeneratedBodies \cup LongBodies

\* Option<PathBuf>: a draft chapter has no path.
Paths == {None, Some("ch.md")}

Names == {"Chapter 1"}

ParentNames == {<<>>, <<"Part">>}

Chapters ==
    [name : Names, content : Bodies, path : Paths, parent_names : ParentNames]

\* Option::unwrap_or_default on Option<PathBuf>: the empty path for None.
UnwrapOrDefault(opt) == IF opt = None THEN "" ELSE opt[1]

\* mdbook's Chapter::new, which stores the path it is given as Some(path).
Chapter_new(name, body, path, parent_names) ==
    [name |-> name, content |-> body, path |-> Some(path),
     parent_names |-> parent_names]

-----------------------------------------------------------------------------
(* The annotation scanner: parse_chapter_contents *)

Init ==
    /\ chapter \in Chapters
    /\ buffer = chapter.content
    /\ content = <<>>
    /\ steps = 0
    /\ pc = "loop"
    /\ result = None

InLoop == pc = "loop" /\ steps < MAX_LOOP_STEPS

\* The text before the first marker of buf, and the text from it on.
Clear(buf) == SplitAtLeft(buf, Find(buf, CODE_ANNOTATION)[1])

Parse(buf) == SplitAtRight(buf, Find(buf, CODE_ANNOTATION)[1])

\* if buffer.is_empty() { break; }
ScanEmpty ==
    /\ InLoop
    /\ buffer = <<>>
    /\ pc' = "return"
    /\ UNCHANGED <<chapter, buffer, content, steps, result>>

\* The branch for no marker, had it left out content.push_str(buffer).
ScanNoMarker_NoAppend ==
    /\ InLoop
    /\ buffer # <<>>
    /\ Find(buffer, CODE_ANNOTATION) = None
    /\ pc' = "return"
    /\ UNCHANGED <<chapter, buffer, content, steps, result>>

\* No marker is left: the rest of the input is appended, and the loop ends.
ScanNoMarker ==
    /\ InLoop
    /\ buffer # <<>>
    /\ Find(buffer, CODE_ANNOTATION) = None
    /\ content' = content \o buffer
    /\ pc' = "return"
    /\ UNCHANGED <<chapter, buffer, steps, result>>

\* The branch for a marker without a table, had it echoed the marker.
ScanDropMarker_Echo ==
    /\ InLoop
    /\ buffer # <<>>
    /\ Find(buffer, CODE_ANNOTATION) # None
    /\ LET valid_str == StripPrefix(Parse(buffer), CODE_ANNOTATION)
       IN  /\ valid_str # None
           /\ get_table_metadata(valid_str[1]).kind = "None"
           /\ buffer' = valid_str[1]
    /\ content' = content \o Clear(buffer) \o CODE_ANNOTATION
    /\ steps' = steps + 1
    /\ UNCHANGED <<chapter, pc, result>>

\* A marker with no table after it (or, defensively, a marker strip_prefix
\* does not find): the text before it is appended, the marker is skipped.
ScanDropMarker ==
    /\ InLoop
    /\ buffer # <<>>
    /\ Find(buffer, CODE_ANNOTATION) # None
    /\ LET valid_str == StripPrefix(Parse(buffer), CODE_ANNOTATION)
       IN  IF valid_str = None
           THEN buffer' = SplitAtRight(Parse(buffer), Len(CODE_ANNOTATION))
           ELSE /\ get_table_metadata(valid_str[1]).kind = "None"
                /\ buffer' = valid_str[1]
    /\ content' = content \o Clear(buffer)
    /\ steps' = steps + 1
    /\ UNCHANGED <<chapter, pc, result>>

\* A marker with a table after it: the text before it and the table's HTML
\* are appended, and the input resumes after the consumed length.
ScanTable ==
    /\ InLoop
    /\ buffer # <<>>
    /\ Find(buffer, CODE_ANNOTATION) # None
    /\ StripPrefix(Parse(buffer), CODE_ANNOTATION) # None
    /\ LET valid_str == StripPrefix(Parse(buffer), CODE_ANNOTATION)[1]
           meta      == get_table_metadata(valid_str)
       IN  /\ meta.kind = "Some"
           /\ buffer' = SplitAtRight(valid_str, meta.size)
           /\ content' = content \o Clear(buffer)
                             \o CodeTable_get_as_html(meta.table)
    /\ steps' = steps + 1
    /\ UNCHANGED <<chapter, pc, result>>

\* get_table_metadata panics in split_at: the process ends with no chapter.
ScanPanic ==
    /\ InLoop
    /\ buffer # <<>>
    /\ Find(buffer, CODE_ANNOTATION) # None
    /\ StripPrefix(Parse(buffer), CODE_ANNOTATION) # None
    /\ LET valid_str == StripPrefix(Parse(buffer), CODE_ANNOTATION)[1]
       IN  get_table_metadata(valid_str).kind = "Panic"
    /\ content' = content \o Clear(buffer)
    /\ pc' = "panic"
    /\ UNCHANGED <<chapter, buffer, steps, result>>

\* The for loop has run MAX_LOOP_STEPS iterations.
LoopExhausted ==
    /\ pc = "loop"
    /\ steps = MAX_LOOP_STEPS
    /\ pc' = "return"
    /\ UNCHANGED <<chapter, buffer, content, steps, result>>

\* The chapter built after the loop.
Return ==
    /\ pc = "return"
    /\ result' = Some(Chapter_new(chapter.name, content,
                                  UnwrapOrDefault(chapter.path),
                                  chapter.parent_names))
    /\ pc' = "done"
    /\ UNCHANGED <<chapter, buffer, content, steps>>

Next ==
    \/ ScanEmpty
    \/ ScanNoMarker
    \/ ScanDropMarker
    \/ ScanTable
    \/ ScanPanic
    \/ LoopExhausted
    \/ Return

Spec == Init /\ [][Next]_vars

-----------------------------------------------------------------------------
(* What the claims speak of *)

\* The scanner is at the top of an iteration whose search finds a marker.
AtMarker == InLoop /\ Contains(buffer, CODE_ANNOTATION)

\* The text right after the first marker of buf.
AfterMarker(buf) ==
    SubSeq(buf, Find(buf, CODE_ANNOTATION)[1] + Len(CODE_ANNOTATION) + 1, Len(buf))

\* The text of s up to its first line feed, the line feed left out.
FirstLine(s) ==
    IF Contains(s, <<"\n">>) THEN SubSeq(s, 1, Find(s, <<"\n">>)[1]) ELSE s

\* The text of s after its first line feed; nothing when there is none.
AfterFirstLine(s) ==
    IF Contains(s, <<"\n">>) THEN SubSeq(s, Find(s, <<"\n">>)[1] + 2, Len(s))
    ELSE <<>>

\* The chapter returned.
Returned == result[1]

-----------------------------------------------------------------------------
(* C6 *)

\* C6: for every body that contains no '@code' (the empty body included), the
\* body of the chapter returned equals the input body.
C6_NoMarkerIdentity ==
    (pc = "done" /\ ~Contains(chapter.content, CODE_ANNOTATION))
        => Returned.content = chapter.content

\* A chapter with a non-empty body without a marker has been returned.
C6_Witness ==
    /\ pc = "done"
    /\ ~Contains(chapter.content, CODE_ANNOTATION)
    /\ Len(chapter.content) >= 3
    /\ Contains(chapter.content, <<"|">>)

-----------------------------------------------------------------------------
(* C2 *)

\* C2: when the loop has used up its MAX_LOOP_STEPS iterations while input
\* remains in the buffer, the body returned is the output accumulated so far
\* followed by the remaining input.
C2_CapKeepsRemainder ==
    (pc = "done" /\ steps = MAX_LOOP_STEPS /\ buffer # <<>>)
        => Returned.content = content \o buffer

-----------------------------------------------------------------------------
(* C5 *)

\* C5: parse_chapter_contents never panics: every offset given to split_at is
\* within the string and on a char boundary.
C5_NeverPanics == pc # "panic"

-----------------------------------------------------------------------------
(* C9 *)

\* C9: the chapter returned has the name, the path and the parent names of the
\* input chapter; a chapter without a path is returned without a path.
C9_IdentityKept ==
    pc = "done"
        => /\ Returned.name = chapter.name
           /\ Returned.path = chapter.path
           /\ Returned.parent_names = chapter.parent_names

-----------------------------------------------------------------------------
(* C1 *)

\* What get_table_metadata answers for the text after the marker of buffer.
MetaAtMarker == get_table_metadata(AfterMarker(buffer))

\* C1, as claimed: an iteration that finds a marker followed by a table
\* get_table_metadata recognizes appends the text before the marker and the
\* table's HTML; an iteration that finds a marker not followed by one leaves
\* the marker in the output, at that place.
C1_MarkerKeptVerbatim ==
    [][AtMarker =>
          /\ MetaAtMarker.kind = "Some" =>
                 content' = content \o Clear(buffer)
                                \o CodeTable_get_as_html(MetaAtMarker.table)
          /\ MetaAtMarker.kind = "None" =>
                 content' = content \o Clear(buffer) \o CODE_ANNOTATION]_vars

\* C1, amended: an iteration that finds a marker appends the text before it
\* and then, when get_table_metadata returns a table, the table's HTML and
\* resumes after the consumed length; when no table follows it appends
\* nothing more, so the marker is dropped from the output, and it resumes
\* right after the marker.
C1_MarkerDropped ==
    [][AtMarker =>
          /\ MetaAtMarker.kind = "Some" =>
                 /\ content' = content \o Clear(buffer)
                                   \o CodeTable_get_as_html(MetaAtMarker.table)
                 /\ buffer' = SubSeq(AfterMarker(buffer), MetaAtMarker.size + 1,
                                     Len(AfterMarker(buffer)))
          /\ MetaAtMarker.kind = "None" =>
                 /\ content' = content \o Clear(buffer)
                 /\ buffer' = AfterMarker(buffer)]_vars

\* A body with text around a marker that no table follows has been returned
\* with the marker gone and the text around it kept.
C1_Witness ==
    /\ pc = "done"
    /\ Contains(chapter.content, CODE_ANNOTATION)
    /\ ~Contains(chapter.content, <<"|">>)
    /\ Clear(chapter.content) # <<>>
    /\ AfterMarker(chapter.content) # <<>>
    /\ ~Contains(AfterMarker(chapter.content), CODE_ANNOTATION)
    /\ Returned.content = Clear(chapter.content) \o AfterMarker(chapter.content)

-----------------------------------------------------------------------------
(* C3 *)

\* The text starts with white space or a line terminator, and the line its
\* first other character is on contains a pipe.
TableAfterWhiteSpace(s) ==
    /\ s # <<>>
    /\ s[1] \in WhiteSpace
    /\ Contains(FirstLine(TrimStart(s)), <<"|">>)

-----------------------------------------------------------------------------
(* C4 *)

\* The length of the leading lines of s that contain a pipe, each with the
\* line terminator that follows it.
RECURSIVE TableSpan(_)
TableSpan(s) ==
    IF s = <<>> \/ ~Contains(FirstLine(s), <<"|">>) THEN 0
    ELSE IF Contains(s, <<"\n">>)
         THEN Len(FirstLine(s)) + 1 + TableSpan(AfterFirstLine(s))
         ELSE Len(s)

\* C4: the consumed length ends right after the line terminator that follows
\* the last table line (at the end of that line when none follows): the
\* scanner resumes on the first character after the table's line break, and
\* neither a character of a table line nor that line break reaches the
\* output.
C4_ConsumesWholeTable ==
    [][(AtMarker /\ MetaAtMarker.kind = "Some") =>
          /\ MetaAtMarker.size = TableSpan(AfterMarker(buffer))
          /\ buffer' = SubSeq(AfterMarker(buffer),
                              TableSpan(AfterMarker(buffer)) + 1,
                              Len(AfterMarker(buffer)))]_vars

-----------------------------------------------------------------------------
(* C7 *)

\* The rendering of a first row: every cell in a <th>, whatever its text.
RECURSIVE HeaderCells(_)
HeaderCells(cells) ==
    IF cells = <<>> THEN <<>>
    ELSE Lit_th_open \o Head(cells) \o Lit_th_close \o HeaderCells(Tail(cells))

\* The renderings of the rows after the first.
RECURSIVE LaterRows(_)
LaterRows(rows) ==
    IF rows = <<>> THEN <<>>
    ELSE TableRow_get_as_html(Head(rows)) \o LaterRows(Tail(rows))

\* C7: in every recognized table each cell of the first row is a Heading and
\* is rendered in a <th> within <thead>, whatever its text; no cell of a
\* later row is a Heading, is rendered as <th>, or is within <thead>.
C7_HeaderInvariant ==
    [][(AtMarker /\ MetaAtMarker.kind = "Some") =>
          LET rows == MetaAtMarker.table.rows
          IN  /\ \A i \in 1..Len(rows[1].row_types) :
                     rows[1].row_types[i] = "Headings"
              /\ \A r \in 2..Len(rows) : \A i \in 1..Len(rows[r].row_types) :
                     rows[r].row_types[i] # "Headings"
              /\ ~Contains(LaterRows(Tail(rows)), Lit_th_open)
              /\ content' = content \o Clear(buffer)
                                \o HtmlOpen
                                \o Lit_tr_open \o HeaderCells(rows[1].contents)
                                \o Lit_tr_close
                                \o HtmlMid
                                \o LaterRows(Tail(rows))
                                \o HtmlClose]_vars

\* A table whose first row holds a cell that looks like an alignment marker
\* and a cell with a backtick, and that has a second row, has been rendered.
C7_Witness ==
    /\ steps >= 1
    /\ Contains(content, Lit_th_open \o <<"-">> \o Lit_th_close)
    /\ Contains(content, Lit_th_open \o <<"60", "a", "60">> \o Lit_th_close)
    /\ Contains(content, Lit_td_open)

-----------------------------------------------------------------------------
(* C8 *)

RECURSIVE SkipWhiteSpace(_, _)
SkipWhiteSpace(s, i) ==
    IF i <= Len(s) /\ s[i] \in WhiteSpace THEN SkipWhiteSpace(s, i + 1) ELSE i

\* s without the white space that stands between two tags, from index i on.
RECURSIVE StripFrom(_, _)
StripFrom(s, i) ==
    IF i > Len(s) THEN <<>>
    ELSE LET j == SkipWhiteSpace(s, i)
         IN  IF i > 1 /\ s[i - 1] = ">" /\ j > i /\ j <= Len(s) /\ s[j] = "<"
             THEN StripFrom(s, j)
             ELSE <<s[i]>> \o StripFrom(s, i + 1)

StripTagWhiteSpace(s) == StripFrom(s, 1)

Before == <<"b", "e", "f", "o", "r", "e", " ">>

After == <<"\n", "a", "f", "t", "e", "r">>

\* The table fragment the example of the specification expects.
ClaimedTags ==
    <<"<", "t", "a", "b", "l", "e", ">", "<", "t", "h", "e", "a", "d", ">", "<", "t",
      "r", ">", "<", "t", "h", ">", "a", "<", "/", "t", "h", ">", "<", "t", "h", ">",
      "b", "<", "/", "t", "h", ">", "<", "/", "t", "r", ">", "<", "/", "t", "h", "e",
      "a", "d", ">", "<", "t", "r", ">", "<", "/", "t", "r", ">", "<", "t", "r", ">",
      "<", "t", "d", ">", "<", "p", "r", "e", ">", "x", "<", "/", "p", "r", "e", ">",
      "<", "t", "d", ">", "<", "t", "d", ">", "y", "<", "/", "t", "d", ">", "<", "/",
      "t", "r", ">", "<", "/", "t", "a", "b", "l", "e", ">">>

\* The same fragment with an empty <th> for the fragment before the first
\* and after the last pipe of the first row, and with the backticks kept.
RenderedTags ==
    <<"<", "t", "a", "b", "l", "e", ">", "<", "t", "h", "e", "a", "d", ">", "<", "t",
      "r", ">", "<", "t", "h", ">", "<", "/", "t", "h", ">", "<", "t", "h", ">", "a",
      "<", "/", "t", "h", ">", "<", "t", "h", ">", "b", "<", "/", "t", "h", ">", "<",
      "t", "h", ">", "<", "/", "t", "h", ">", "<", "/", "t", "r", ">", "<", "/", "t",
      "h", "e", "a", "d", ">", "<", "t", "r", ">", "<", "/", "t", "r", ">", "<", "t",
      "r", ">", "<", "t", "d", ">", "<", "p", "r", "e", ">", "60", "x", "60", "<", "/",
      "p", "r", "e", ">", "<", "t", "d", ">", "<", "t", "d", ">", "y", "<", "/", "t",
      "d", ">", "<", "/", "t", "r", ">", "<", "/", "t", "a", "b", "l", "e", ">">>

\* C8, as claimed: for the example body the output is 'before ', then a table
\* whose tags and cell content, white space between tags aside, are
\* <table><thead><tr><th>a</th><th>b</th></tr></thead><tr></tr>
\* <tr><td><pre>x</pre><td><td>y</td></tr></table>, then a newline and 'after'.
C8_ExampleAsClaimed ==
    (pc = "done" /\ chapter.content = SpecExample)
        => StripTagWhiteSpace(Returned.content) = Before \o ClaimedTags \o After

\* C8, amended: the first row is rendered <tr><th></th><th>a</th><th>b</th>
\* <th></th></tr>, and the code cell is <td><pre>`x`</pre><td>, the backticks
\* kept; the rest is as claimed.
C8_ExampleAsRendered ==
    (pc = "done" /\ chapter.content = SpecExample)
        => StripTagWhiteSpace(Returned.content) = Before \o RenderedTags \o After

\* The chapter of the example has been returned.
C8_Witness ==
    /\ pc = "done"
    /\ chapter.content = SpecExample
    /\ steps = 1
    /\ Contains(Returned.content, Lit_pre_open)

-----------------------------------------------------------------------------
(* C10 *)

HyphenNoSpace(e) == Contains(e, <<"-">>) /\ ~Contains(e, <<" ">>)

\* C10: a cell is an Alignment only in the second row of the table, when its
\* trimmed text holds a hyphen and no space; such a cell of the third or a
\* later row is typed by the remaining rules, and its text is in the rendered
\* row.
C10_AlignmentOnlyInSecondRow ==
    [][(AtMarker /\ MetaAtMarker.kind = "Some") =>
          LET rows == MetaAtMarker.table.rows
          IN  \A r \in 1..Len(rows) : \A i \in 1..Len(rows[r].contents) :
                  /\ rows[r].row_types[i] = "Alignments" =>
                         r = 2 /\ HyphenNoSpace(rows[r].contents[i])
                  /\ (r >= 3 /\ HyphenNoSpace(rows[r].contents[i])) =>
                         /\ rows[r].row_types[i]
                                \in {"CodeEntry", "Empty", "TextEntry"}
                         /\ Contains(TableRow_get_as_html(rows[r]),
                                     rows[r].contents[i])]_vars

=============================================================================
